---- MODULE Spec2Model ----
(***************************************************************************)
(* Model of the Home Assistant dashboard deployment scripts:               *)
(*   src/deploy/deploy_dashboard.py  (current script, "current")           *)
(*   src/deploy_dashboard.py         (legacy script,  "legacy")            *)
(*                                                                         *)
(* One behaviour is one run of main().  The command line, the state of the *)
(* local files and the outcome of every remote operation are chosen        *)
(* nondeterministically; the program itself is sequential, so `pc` is the  *)
(* position of main() and every action is one step of it up to and         *)
(* including the next call that talks to the outside world.                *)
(***************************************************************************)
EXTENDS Integers, Sequences, FiniteSets, TLC

VARIABLES
    script,       \* which of the two scripts is run
    args,         \* the parsed command line (argparse namespace)
    pc,           \* position of main()
    ssh_client,   \* HomeAssistantDeployer.ssh_client: the shell-command channel
    sftp_client,  \* HomeAssistantDeployer.sftp_client: the file-transfer channel
    deployed,     \* main's list `deployed`
    mode_label,   \* main's `mode_label`
    cmd_idx,      \* index of the loop `for cmd in commands` in reload_yaml_config
    pending,      \* what is propagating when the finally block is entered
    exit_code,    \* exit status of the process
    reloaded,     \* what reload_yaml_config() returned
    paths,        \* main's remote paths, as strings: args.remote, args.theme_remote
                  \* and the two staging paths derived from them
    texts,        \* the local files' texts and main's dashboard_content, theme_content
    remote,       \* the files on the server, and what they were earlier in the run
    invocation,   \* what the command line says beyond `args`, and the run of the
                  \* legacy script the run is compared with
    out,          \* the messages printed so far
    trace         \* the calls made on the deployer and on its channels, in order

vars == <<script, args, pc, ssh_client, sftp_client, deployed, mode_label,
          cmd_idx, pending, exit_code, reloaded, paths, texts, remote, invocation, out, trace>>

-----------------------------------------------------------------------------
(* Inputs and outcomes of the outside world *)

\* A local file: absent, present and readable, or present but not readable
\* as UTF-8 text (permissions, a directory, invalid encoding).
LocalFileStates == {"missing", "ok", "unreadable"}

\* paramiko's connect(): both channels opened; SSHClient.connect() (or, in
\* the legacy script, RSAKey.from_private_key_file) raised; or connect()
\* succeeded and open_sftp() raised.
ConnectResults == {"ok", "ssh_fail", "sftp_fail"}

\* sftp put()/putfo(): returned, or raised.
TransferResults == {"ok", "raised"}

\* exec_command() of the backup one-liner: the target existed and was copied,
\* the target did not exist, the cp itself failed (the `||` branch echoes
\* and the command still completes), or exec_command()/read() raised.
BackupResults == {"copied", "absent", "cp_failed", "raised"}

\* exec_command() + recv_exit_status(): exit status 0, exit status # 0, or
\* an exception (timeout, channel closed).
ExecResults == {"zero", "nonzero", "raised"}

\* Mutant of commands: the first two fallback commands change places.
commands_swapped ==
    << "sudo -u homeassistant -H /srv/homeassistant/bin/homeassistant --script reload_core_config",
       "hassio homeassistant reload core_config",
       "docker exec homeassistant homeassistant --script reload_core_config" >>

\* HomeAssistantDeployer.reload_yaml_config: the list `commands`
commands == << "hassio homeassistant reload core_config",
               "sudo -u homeassistant -H /srv/homeassistant/bin/homeassistant --script reload_core_config",
               "docker exec homeassistant homeassistant --script reload_core_config" >>

\* The remote paths a run can address.
RemotePaths == {"args.remote", "args.theme_remote",
                "staging_dashboard_remote", "staging_theme_remote"}

\* The namespaces parse_args() can be asked to build for the current script;
\* key, password and token are recorded by their truthiness.
CurrentArgs ==
    [key : BOOLEAN, password : BOOLEAN, token : BOOLEAN,
     stage : BOOLEAN, promote : BOOLEAN, theme : BOOLEAN,
     no_reload : BOOLEAN, no_backup : BOOLEAN,
     local : LocalFileStates, theme_local : LocalFileStates]

\* The legacy script has no --token, --stage, --promote, --theme, --theme-local.
LegacyArgs ==
    [key : BOOLEAN, password : BOOLEAN, token : {FALSE},
     stage : {FALSE}, promote : {FALSE}, theme : {FALSE},
     no_reload : BOOLEAN, no_backup : BOOLEAN,
     local : LocalFileStates, theme_local : {"missing"}]

\* A call recorded in `trace`: the method, the remote path or command it is
\* given, and how it went; an upload also records what is sent (`src`).
Call(op, arg, res) == [op |-> op, arg |-> arg, res |-> res, src |-> ""]

Upload(op, src, arg, res) == [op |-> op, arg |-> arg, res |-> res, src |-> src]

\* In the runs of `Spec` the remote paths and the texts stay symbolic: `trace`
\* names them ("args.remote", "dashboard_content", ...).  Their values are
\* the subject of PathSpec, DashboardContentSpec and ThemeContentSpec below,
\* and the files on the server are the subject of RemoteSpec.
NoPaths == [remote |-> << >>, theme_remote |-> << >>,
            staging_dashboard_remote |-> << >>, staging_theme_remote |-> << >>]

NoTexts == [local |-> << >>, theme_local |-> << >>,
            dashboard_content |-> << >>, theme_content |-> << >>]

NoRemote == [files |-> << >>, run |-> 0, at_start |-> << >>,
             at_backup |-> << >>, at_upload |-> << >>]

NoInvocation == [remote_given |-> TRUE, local_given |-> TRUE, key_type |-> "rsa",
                 legacy_trace |-> << >>, legacy_exit_code |-> "none"]

Init ==
    /\ script \in {"current", "legacy"}
    /\ invocation = NoInvocation
    /\ paths = NoPaths
    /\ texts = NoTexts
    /\ remote = NoRemote
    /\ args \in (IF script = "current" THEN CurrentArgs ELSE LegacyArgs)
    /\ pc = IF script = "current" THEN "parse_args" ELSE "legacy_validate_auth"
    /\ ssh_client = "none"
    /\ sftp_client = "none"
    /\ deployed = << >>
    /\ mode_label = "unset"
    /\ cmd_idx = 0
    /\ pending = "none"
    /\ exit_code = "running"
    /\ reloaded = "not called"
    /\ out = {}
    /\ trace = << >>

-----------------------------------------------------------------------------
(* HomeAssistantDeployer *)

\* os.path.exists(path)
exists(f) == f # "missing"

\* Mutant of connect_returns: the failure of connect() is not reported.
connect_returns_always(r) == TRUE

\* connect(): the return value, and the effect on the two channels.
connect_returns(r) == r = "ok"

connect(r) ==
    /\ ssh_client' = (IF r = "ssh_fail" THEN "created" ELSE "open")
    /\ sftp_client' = (IF r = "ok" THEN "open" ELSE "none")
    /\ trace' = Append(trace, Call("connect", "host", r))

\* disconnect(): closes each channel object that was created.
disconnect ==
    /\ sftp_client' = (IF sftp_client # "none" THEN "closed" ELSE sftp_client)
    /\ ssh_client' = (IF ssh_client # "none" THEN "closed" ELSE ssh_client)
    /\ trace' = Append(trace, Call("disconnect", "host", "ok"))

\* deploy_file(): what happens inside its try block.  FileNotFoundError is
\* raised when the local file does not exist, put() raises when it cannot be
\* read, and otherwise put() returns or raises as the transfer goes.
put_outcome(local_file, r) == IF local_file = "ok" THEN r ELSE "raised"

\* Mutant of deploy_file_returns: `return True` moved out of the try block.
deploy_file_returns_always(local_file, r) == TRUE

\* deploy_file(): True iff nothing was raised; every exception is caught
\* and turned into False.
deploy_file_returns(local_file, r) == put_outcome(local_file, r) = "ok"

\* deploy_content(): True iff putfo() returned.
deploy_content_returns(r) == r = "ok"

\* backup_file(): best effort, the return value is ignored by main.
backup_file(remote_path, r) ==
    /\ trace' = Append(trace, Call("backup_file", remote_path, r))
    /\ out' = out \cup {IF r = "raised" THEN "Backup warning" ELSE "Backup created"}

-----------------------------------------------------------------------------
(* main() of the current script, before the connection *)

\* sys.exit(code) outside the try block: the process ends at once.
Die(code, msg) ==
    /\ pc' = "done"
    /\ exit_code' = code
    /\ out' = out \cup {msg}

\* Mutant of mutually_exclusive_ok: the two flags are plain arguments.
mutually_exclusive_dropped(a) == TRUE

\* add_mutually_exclusive_group(): --stage and --promote together are
\* refused by parse_args(), which prints the usage and exits with status 2.
mutually_exclusive_ok(a) == ~(a.stage /\ a.promote)

ParseArgs ==
    /\ pc = "parse_args"
    /\ IF mutually_exclusive_ok(args)
       THEN pc' = "validate_auth" /\ UNCHANGED <<exit_code, out>>
       ELSE Die("2", "usage: argument --promote: not allowed with argument --stage")
    /\ UNCHANGED <<invocation, remote, script, args, paths, texts, reloaded, ssh_client, sftp_client, deployed, mode_label,
                   cmd_idx, pending, trace>>

\* Mutant of auth_method_given: the authentication check is missing.
auth_method_unchecked(a) == TRUE

\* `if not args.key and not args.password` is the error case.
auth_method_given(a) == a.key \/ a.password

ValidateAuth ==
    /\ pc = "validate_auth"
    /\ IF auth_method_given(args)
       THEN pc' = "validate_local" /\ UNCHANGED <<exit_code, out>>
       ELSE Die("1", "Error: Must specify either --key or --password")
    /\ UNCHANGED <<invocation, remote, script, args, paths, texts, reloaded, ssh_client, sftp_client, deployed, mode_label,
                   cmd_idx, pending, trace>>

\* The runs whose local theme file is checked before connecting.
theme_local_checked(a) == a.theme \/ a.promote

ValidateLocal ==
    /\ pc = "validate_local"
    /\ IF ~exists(args.local)
       THEN Die("1", "Error: Local dashboard file not found")
       ELSE IF theme_local_checked(args) /\ ~exists(args.theme_local)
       THEN Die("1", "Error: Local theme file not found")
       ELSE pc' = "connect" /\ UNCHANGED <<exit_code, out>>
    /\ UNCHANGED <<invocation, remote, script, args, paths, texts, reloaded, ssh_client, sftp_client, deployed, mode_label,
                   cmd_idx, pending, trace>>

\* `if not deployer.connect(): sys.exit(1)`, then the head of the try block.
Connect ==
    /\ pc = "connect"
    /\ \E r \in ConnectResults :
        /\ connect(r)
        /\ IF connect_returns(r)
           THEN /\ pc' = (IF args.stage THEN "stage_read_dashboard"
                                        ELSE "prod_backup_dashboard")
                /\ out' = out \cup {"Connected"}
                /\ UNCHANGED exit_code
           ELSE Die("1", "Connection failed")
    /\ UNCHANGED <<invocation, remote, script, args, paths, texts, reloaded, deployed, mode_label, cmd_idx, pending>>

-----------------------------------------------------------------------------
(* main() of the current script: the try block *)

\* sys.exit(1) inside the try block: SystemExit propagates to the finally block.
SysExit(msg) ==
    /\ pending' = "SystemExit(1)"
    /\ pc' = "finally"
    /\ out' = out \cup {msg}

\* An exception that main() does not catch, raised inside the try block.
Raise ==
    /\ pending' = "exception"
    /\ pc' = "finally"

\* Mutant of BackupStep: --no-backup is ignored.
BackupStep_Always(remote_path) ==
    \E r \in BackupResults : backup_file(remote_path, r)

\* `if not args.no_backup: deployer.backup_file(path, label)`
BackupStep(remote_path) ==
    IF ~args.no_backup
    THEN \E r \in BackupResults : backup_file(remote_path, r)
    ELSE UNCHANGED <<trace, out>>

\* Path(args.local).read_text() and the replace() on the text.
StageReadDashboard ==
    /\ pc = "stage_read_dashboard"
    /\ IF args.local = "ok"
       THEN pc' = "stage_backup_dashboard" /\ UNCHANGED pending
       ELSE Raise
    /\ UNCHANGED <<invocation, remote, script, args, paths, texts, reloaded, ssh_client, sftp_client, deployed, mode_label,
                   cmd_idx, exit_code, out, trace>>

StageBackupDashboard ==
    /\ pc = "stage_backup_dashboard"
    /\ BackupStep("staging_dashboard_remote")
    /\ pc' = "stage_upload_dashboard"
    /\ UNCHANGED <<invocation, remote, script, args, paths, texts, reloaded, ssh_client, sftp_client, deployed, mode_label,
                   cmd_idx, pending, exit_code>>

StageUploadDashboard ==
    /\ pc = "stage_upload_dashboard"
    /\ \E r \in TransferResults :
        /\ trace' = Append(trace, Upload("deploy_content", "dashboard_content", "staging_dashboard_remote", r))
        /\ IF deploy_content_returns(r)
           THEN /\ deployed' = Append(deployed, "staging dashboard")
                /\ pc' = "stage_read_theme"
                /\ UNCHANGED <<pending, out>>
           ELSE /\ SysExit("Staging dashboard deployment failed")
                /\ UNCHANGED deployed
    /\ UNCHANGED <<invocation, remote, script, args, paths, texts, reloaded, ssh_client, sftp_client, mode_label, cmd_idx,
                   exit_code>>

\* Path(args.theme_local).read_text() and the replace(..., 1) on the text.
StageReadTheme ==
    /\ pc = "stage_read_theme"
    /\ IF args.theme_local = "ok"
       THEN pc' = "stage_backup_theme" /\ UNCHANGED pending
       ELSE Raise
    /\ UNCHANGED <<invocation, remote, script, args, paths, texts, reloaded, ssh_client, sftp_client, deployed, mode_label,
                   cmd_idx, exit_code, out, trace>>

StageBackupTheme ==
    /\ pc = "stage_backup_theme"
    /\ BackupStep("staging_theme_remote")
    /\ pc' = "stage_upload_theme"
    /\ UNCHANGED <<invocation, remote, script, args, paths, texts, reloaded, ssh_client, sftp_client, deployed, mode_label,
                   cmd_idx, pending, exit_code>>

StageUploadTheme ==
    /\ pc = "stage_upload_theme"
    /\ \E r \in TransferResults :
        /\ trace' = Append(trace, Upload("deploy_content", "theme_content", "staging_theme_remote", r))
        /\ IF deploy_content_returns(r)
           THEN /\ deployed' = Append(deployed, "staging theme")
                /\ pc' = "summary"
                /\ UNCHANGED <<pending, out>>
           ELSE /\ SysExit("Staging theme deployment failed")
                /\ UNCHANGED deployed
    /\ UNCHANGED <<invocation, remote, script, args, paths, texts, reloaded, ssh_client, sftp_client, mode_label, cmd_idx,
                   exit_code>>

ProdBackupDashboard ==
    /\ pc = "prod_backup_dashboard"
    /\ BackupStep("args.remote")
    /\ pc' = "prod_upload_dashboard"
    /\ UNCHANGED <<invocation, remote, script, args, paths, texts, reloaded, ssh_client, sftp_client, deployed, mode_label,
                   cmd_idx, pending, exit_code>>

\* `if args.theme or args.promote` after the dashboard upload.
theme_requested_in_prod_branch(a) == a.theme \/ a.promote

ProdUploadDashboard ==
    /\ pc = "prod_upload_dashboard"
    /\ \E r \in TransferResults :
        /\ trace' = Append(trace, Upload("deploy_file", "args.local", "args.remote",
                                         put_outcome(args.local, r)))
        /\ IF deploy_file_returns(args.local, r)
           THEN /\ deployed' = Append(deployed, "dashboard")
                /\ pc' = (IF theme_requested_in_prod_branch(args)
                          THEN "prod_backup_theme" ELSE "summary")
                /\ UNCHANGED <<pending, out>>
           ELSE /\ SysExit("Dashboard deployment failed")
                /\ UNCHANGED deployed
    /\ UNCHANGED <<invocation, remote, script, args, paths, texts, reloaded, ssh_client, sftp_client, mode_label, cmd_idx,
                   exit_code>>

ProdBackupTheme ==
    /\ pc = "prod_backup_theme"
    /\ BackupStep("args.theme_remote")
    /\ pc' = "prod_upload_theme"
    /\ UNCHANGED <<invocation, remote, script, args, paths, texts, reloaded, ssh_client, sftp_client, deployed, mode_label,
                   cmd_idx, pending, exit_code>>

\* Mutant of ProdUploadTheme: the call is a copy of the dashboard's and
\* still names args.remote as its target.
ProdUploadTheme_DashboardTarget ==
    /\ pc = "prod_upload_theme"
    /\ \E r \in TransferResults :
        /\ trace' = Append(trace, Upload("deploy_file", "args.theme_local", "args.remote",
                                         put_outcome(args.theme_local, r)))
        /\ IF deploy_file_returns(args.theme_local, r)
           THEN /\ deployed' = Append(deployed, "theme")
                /\ pc' = "summary"
                /\ UNCHANGED <<pending, out>>
           ELSE /\ SysExit("Theme deployment failed")
                /\ UNCHANGED deployed
    /\ UNCHANGED <<invocation, remote, script, args, paths, texts, reloaded, ssh_client, sftp_client,
                   mode_label, cmd_idx, exit_code>>

ProdUploadTheme ==
    /\ pc = "prod_upload_theme"
    /\ \E r \in TransferResults :
        /\ trace' = Append(trace, Upload("deploy_file", "args.theme_local", "args.theme_remote",
                                         put_outcome(args.theme_local, r)))
        /\ IF deploy_file_returns(args.theme_local, r)
           THEN /\ deployed' = Append(deployed, "theme")
                /\ pc' = "summary"
                /\ UNCHANGED <<pending, out>>
           ELSE /\ SysExit("Theme deployment failed")
                /\ UNCHANGED deployed
    /\ UNCHANGED <<invocation, remote, script, args, paths, texts, reloaded, ssh_client, sftp_client, mode_label, cmd_idx,
                   exit_code>>

\* The mode label of the summary.
ModeLabel(a) ==
    IF a.stage THEN "STAGING"
    ELSE IF a.promote THEN "PROMOTE TO PROD"
    ELSE "PRODUCTION"

\* Mutant of Summary: the session is closed as soon as the uploads are
\* done, before the reload.
Summary_DisconnectsFirst ==
    /\ pc = "summary"
    /\ mode_label' = ModeLabel(args)
    /\ out' = out \cup {"Deployed successfully"}
    /\ disconnect
    /\ pc' = "reload"
    /\ UNCHANGED <<invocation, remote, script, args, paths, texts, reloaded, deployed, cmd_idx,
                   pending, exit_code>>

Summary ==
    /\ pc = "summary"
    /\ mode_label' = ModeLabel(args)
    /\ out' = out \cup {"Deployed successfully"}
    /\ pc' = "reload"
    /\ UNCHANGED <<invocation, remote, script, args, paths, texts, reloaded, ssh_client, sftp_client, deployed, cmd_idx,
                   pending, exit_code, trace>>

-----------------------------------------------------------------------------
(* reload_yaml_config() and _browser_refresh() of the current script *)

\* Mutant of reload_enabled: --no-reload is ignored.
reload_always(a) == TRUE

\* `if not args.no_reload`
reload_enabled(a) == ~a.no_reload

\* `if self.token` in reload_yaml_config()
token_given(a) == a.token

\* Mutant of Reload: the reload block is placed after the try/finally
\* statement, so the session is already closed when it starts.
Reload_AfterDisconnect ==
    /\ pc = "reload"
    /\ sftp_client' = (IF sftp_client # "none" THEN "closed" ELSE sftp_client)
    /\ ssh_client' = (IF ssh_client # "none" THEN "closed" ELSE ssh_client)
    /\ IF reload_enabled(args)
       THEN /\ trace' = trace \o << Call("disconnect", "host", "ok"),
                                    Call("reload_yaml_config", "", "called") >>
            /\ out' = out \cup {"Disconnected from server",
                                 "Reloading Home Assistant YAML configuration"}
            /\ pc' = (IF token_given(args) THEN "reload_api" ELSE "reload_cmd")
            /\ cmd_idx' = (IF token_given(args) THEN cmd_idx ELSE 1)
       ELSE /\ trace' = Append(trace, Call("disconnect", "host", "ok"))
            /\ out' = out \cup {"Disconnected from server", "Note: Automatic reload skipped"}
            /\ pc' = "finally"
            /\ UNCHANGED cmd_idx
    /\ UNCHANGED <<invocation, remote, script, args, paths, texts, reloaded, deployed,
                   mode_label, pending, exit_code>>

\* main() calls reload_yaml_config(), which runs up to its first remote call.
Reload ==
    /\ pc = "reload"
    /\ IF reload_enabled(args)
       THEN /\ trace' = Append(trace, Call("reload_yaml_config", "", "called"))
            /\ out' = out \cup {"Reloading Home Assistant YAML configuration"}
            /\ pc' = (IF token_given(args) THEN "reload_api" ELSE "reload_cmd")
            /\ cmd_idx' = (IF token_given(args) THEN cmd_idx ELSE 1)
       ELSE /\ out' = out \cup {"Note: Automatic reload skipped"}
            /\ pc' = "finally"
            /\ UNCHANGED <<trace, cmd_idx>>
    /\ UNCHANGED <<invocation, remote, script, args, paths, texts, reloaded, ssh_client, sftp_client, deployed,
                   mode_label, pending, exit_code>>

\* Mutant of ReloadApi: the `return True` after a successful API call is
\* missing, so the CLI fallbacks run as well.
ReloadApi_FallsThrough ==
    /\ pc = "reload_api"
    /\ \E r \in ExecResults :
        /\ trace' = Append(trace, Call("exec_command", "curl reload_core_config", r))
        /\ out' = out \cup {IF r = "zero"
                             THEN "Configuration reloaded successfully via HA REST API"
                             ELSE "API reload failed"}
        /\ pc' = "reload_cmd"
        /\ cmd_idx' = 1
    /\ UNCHANGED <<invocation, remote, script, args, paths, texts, reloaded, ssh_client, sftp_client, deployed,
                   mode_label, pending, exit_code>>

\* Method 1: the curl call to the REST API, run on the remote shell.
ReloadApi ==
    /\ pc = "reload_api"
    /\ \E r \in ExecResults :
        /\ trace' = Append(trace, Call("exec_command", "curl reload_core_config", r))
        /\ IF r = "zero"
           THEN /\ out' = out \cup {"Configuration reloaded successfully via HA REST API"}
                /\ pc' = "browser_refresh"
                /\ UNCHANGED cmd_idx
           ELSE /\ out' = out \cup {"API reload failed"}
                /\ pc' = "reload_cmd"
                /\ cmd_idx' = 1
    /\ UNCHANGED <<invocation, remote, script, args, paths, texts, reloaded, ssh_client, sftp_client, deployed,
                   mode_label, pending, exit_code>>

\* Mutant of BrowserRefresh: the try/except of _browser_refresh() is missing,
\* so an exception of the refresh call reaches the outer handler of
\* reload_yaml_config(), which prints "Reload failed" and returns False.
BrowserRefresh_NoTry ==
    /\ pc = "browser_refresh"
    /\ \E r \in ExecResults :
        /\ trace' = Append(trace, Call("exec_command", "curl browser_mod/refresh", r))
        /\ out' = out \cup (IF r = "zero" THEN {"Browser refresh triggered"}
                            ELSE IF r = "nonzero" THEN {"Browser Mod refresh skipped"}
                            ELSE {"Reload failed"})
        /\ reloaded' = (IF r = "raised" THEN "False" ELSE "True")
    /\ pc' = "finally"
    /\ UNCHANGED <<invocation, remote, script, args, paths, texts, ssh_client, sftp_client, deployed, mode_label,
                   cmd_idx, pending, exit_code>>

\* _browser_refresh(), then `return True` of reload_yaml_config().
BrowserRefresh ==
    /\ pc = "browser_refresh"
    /\ IF args.token
       THEN \E r \in ExecResults :
            /\ trace' = Append(trace, Call("exec_command", "curl browser_mod/refresh", r))
            /\ out' = out \cup (IF r = "zero" THEN {"Browser refresh triggered"}
                                ELSE IF r = "nonzero" THEN {"Browser Mod refresh skipped"}
                                ELSE {})
       ELSE UNCHANGED <<trace, out>>
    /\ reloaded' = "True"
    /\ pc' = "finally"
    /\ UNCHANGED <<invocation, remote, script, args, paths, texts, ssh_client, sftp_client, deployed, mode_label,
                   cmd_idx, pending, exit_code>>

\* Mutant of ReloadCmd: the try/except around one command is missing, so an
\* exception ends the loop and is caught by the outer handler of
\* reload_yaml_config(), which prints "Reload failed" and returns False.
ReloadCmd_NoInnerTry ==
    /\ pc = "reload_cmd"
    /\ \E r \in ExecResults :
        /\ trace' = Append(trace, Call("exec_command", commands[cmd_idx], r))
        /\ IF r = "zero"
           THEN /\ out' = out \cup {"Configuration reloaded successfully using command"}
                /\ reloaded' = "True"
                /\ pc' = "finally"
                /\ UNCHANGED cmd_idx
           ELSE IF r = "raised"
           THEN /\ out' = out \cup {"Reload failed"}
                /\ reloaded' = "False"
                /\ pc' = "finally"
                /\ UNCHANGED cmd_idx
           ELSE IF cmd_idx < Len(commands)
           THEN /\ cmd_idx' = cmd_idx + 1
                /\ UNCHANGED <<out, reloaded, pc>>
           ELSE /\ out' = out \cup {"Could not auto-reload configuration",
                                     "Via UI: Settings -> Server Controls -> YAML Configuration Reloading"}
                /\ reloaded' = "False"
                /\ pc' = "finally"
                /\ UNCHANGED cmd_idx
    /\ UNCHANGED <<invocation, remote, script, args, paths, texts, ssh_client, sftp_client, deployed, mode_label,
                   pending, exit_code>>

\* Method 2: one turn of `for cmd in commands`, and what follows the loop.
ReloadCmd ==
    /\ pc = "reload_cmd"
    /\ \E r \in ExecResults :
        /\ trace' = Append(trace, Call("exec_command", commands[cmd_idx], r))
        /\ IF r = "zero"
           THEN /\ out' = out \cup {"Configuration reloaded successfully using command"}
                /\ reloaded' = "True"
                /\ pc' = "finally"
                /\ UNCHANGED cmd_idx
           ELSE IF cmd_idx < Len(commands)
           THEN /\ cmd_idx' = cmd_idx + 1
                /\ UNCHANGED <<out, reloaded, pc>>
           ELSE /\ out' = out \cup {"Could not auto-reload configuration",
                                     "Via UI: Settings -> Server Controls -> YAML Configuration Reloading"}
                /\ reloaded' = "False"
                /\ pc' = "finally"
                /\ UNCHANGED cmd_idx
    /\ UNCHANGED <<invocation, remote, script, args, paths, texts, ssh_client, sftp_client, deployed, mode_label,
                   pending, exit_code>>

-----------------------------------------------------------------------------
(* main() of the current script: the finally block and the end of the process *)

\* The exit status: 0 when main() returns, 1 for sys.exit(1) and for an
\* exception that reaches the top level.
final_exit_code(p) == IF p = "none" THEN "0" ELSE "1"

\* Mutant of Finally: disconnect() is the last statement of the try block
\* instead of a finally block, so it is skipped when something propagates.
Finally_OnlyOnSuccess ==
    /\ pc = "finally"
    /\ IF pending = "none"
       THEN disconnect /\ out' = out \cup {"Disconnected from server"}
       ELSE /\ out' = out \cup (IF pending = "exception" THEN {"Traceback"} ELSE {})
            /\ UNCHANGED <<ssh_client, sftp_client, trace>>
    /\ exit_code' = final_exit_code(pending)
    /\ pc' = "done"
    /\ UNCHANGED <<invocation, remote, script, args, paths, texts, reloaded, deployed, mode_label, cmd_idx, pending>>

\* `finally: deployer.disconnect()`, then the process ends.
Finally ==
    /\ pc = "finally"
    /\ disconnect
    /\ out' = out \cup {"Disconnected from server"}
                  \cup (IF pending = "exception" THEN {"Traceback"} ELSE {})
    /\ exit_code' = final_exit_code(pending)
    /\ pc' = "done"
    /\ UNCHANGED <<invocation, remote, script, args, paths, texts, reloaded, deployed, mode_label, cmd_idx, pending>>

-----------------------------------------------------------------------------
(* The legacy script: its HomeAssistantDeployer and its main() *)

legacy_connect_returns(r) == r = "ok"

\* connect(): RSAKey.from_private_key_file() or SSHClient.connect() raising
\* leaves an SSHClient object that is not connected ("ssh_fail").
legacy_connect(r) ==
    /\ ssh_client' = (IF r = "ssh_fail" THEN "created" ELSE "open")
    /\ sftp_client' = (IF r = "ok" THEN "open" ELSE "none")
    /\ trace' = Append(trace, Call("connect", "host", r))

legacy_disconnect ==
    /\ sftp_client' = (IF sftp_client # "none" THEN "closed" ELSE sftp_client)
    /\ ssh_client' = (IF ssh_client # "none" THEN "closed" ELSE ssh_client)
    /\ trace' = Append(trace, Call("disconnect", "host", "ok"))

\* deploy_dashboard(): True iff the local file exists and put() returned.
deploy_dashboard_returns(local_file, r) == local_file = "ok" /\ r = "ok"

backup_existing_dashboard(remote_path, r) ==
    /\ trace' = Append(trace, Call("backup_file", remote_path, r))
    /\ out' = out \cup {IF r = "raised" THEN "Backup warning" ELSE "Backup created"}

LegacyValidateAuth ==
    /\ pc = "legacy_validate_auth"
    /\ IF ~args.key /\ ~args.password
       THEN Die("1", "Error: Must specify either --key or --password")
       ELSE pc' = "legacy_validate_local" /\ UNCHANGED <<exit_code, out>>
    /\ UNCHANGED <<invocation, remote, script, args, paths, texts, reloaded, ssh_client, sftp_client, deployed,
                   mode_label, cmd_idx, pending, trace>>

LegacyValidateLocal ==
    /\ pc = "legacy_validate_local"
    /\ IF ~exists(args.local)
       THEN Die("1", "Error: Local file not found")
       ELSE pc' = "legacy_connect" /\ UNCHANGED <<exit_code, out>>
    /\ UNCHANGED <<invocation, remote, script, args, paths, texts, reloaded, ssh_client, sftp_client, deployed,
                   mode_label, cmd_idx, pending, trace>>

LegacyConnect ==
    /\ pc = "legacy_connect"
    /\ \E r \in ConnectResults :
        /\ legacy_connect(r)
        /\ IF legacy_connect_returns(r)
           THEN /\ pc' = "legacy_backup"
                /\ out' = out \cup {"Connected"}
                /\ UNCHANGED exit_code
           ELSE Die("1", "Connection failed")
    /\ UNCHANGED <<invocation, remote, script, args, paths, texts, reloaded, deployed, mode_label, cmd_idx, pending>>

LegacyBackup ==
    /\ pc = "legacy_backup"
    /\ IF ~args.no_backup
       THEN \E r \in BackupResults : backup_existing_dashboard("args.remote", r)
       ELSE UNCHANGED <<trace, out>>
    /\ pc' = "legacy_deploy"
    /\ UNCHANGED <<invocation, remote, script, args, paths, texts, reloaded, ssh_client, sftp_client, deployed,
                   mode_label, cmd_idx, pending, exit_code>>

\* `if deployer.deploy_dashboard(...)`: the summary, or sys.exit(1).
LegacyDeploy ==
    /\ pc = "legacy_deploy"
    /\ \E r \in TransferResults :
        /\ trace' = Append(trace, Upload("deploy_file", "args.local", "args.remote",
                                         IF args.local = "ok" THEN r ELSE "raised"))
        /\ IF deploy_dashboard_returns(args.local, r)
           THEN /\ out' = out \cup {"Deployed successfully"}
                /\ pc' = "legacy_reload"
                /\ UNCHANGED pending
           ELSE /\ pending' = "SystemExit(1)"
                /\ pc' = "legacy_finally"
                /\ out' = out \cup {"Deployment failed"}
    /\ UNCHANGED <<invocation, remote, script, args, paths, texts, reloaded, ssh_client, sftp_client, deployed,
                   mode_label, cmd_idx, exit_code>>

LegacyReload ==
    /\ pc = "legacy_reload"
    /\ IF ~args.no_reload
       THEN /\ trace' = Append(trace, Call("reload_yaml_config", "", "called"))
            /\ out' = out \cup {"Reloading Home Assistant YAML configuration"}
            /\ pc' = "legacy_reload_cmd"
            /\ cmd_idx' = 1
       ELSE /\ out' = out \cup {"Note: Automatic reload skipped"}
            /\ pc' = "legacy_finally"
            /\ UNCHANGED <<trace, cmd_idx>>
    /\ UNCHANGED <<invocation, remote, script, args, paths, texts, reloaded, ssh_client, sftp_client, deployed,
                   mode_label, pending, exit_code>>

\* Mutant of legacy_commands: the container command is tried first.
legacy_commands_docker_first ==
    << "docker exec homeassistant homeassistant --script reload_core_config",
       "hassio homeassistant reload core_config",
       "sudo -u homeassistant -H /srv/homeassistant/bin/homeassistant --script reload_core_config" >>

\* The list `commands` of the legacy reload_yaml_config().
legacy_commands == << "hassio homeassistant reload core_config",
                      "sudo -u homeassistant -H /srv/homeassistant/bin/homeassistant --script reload_core_config",
                      "docker exec homeassistant homeassistant --script reload_core_config" >>

\* One turn of `for cmd in commands`; `if not success` and `return success`
\* after the loop.
LegacyReloadCmd ==
    /\ pc = "legacy_reload_cmd"
    /\ \E r \in ExecResults :
        /\ trace' = Append(trace, Call("exec_command", legacy_commands[cmd_idx], r))
        /\ IF r = "zero"
           THEN /\ out' = out \cup {"Configuration reloaded successfully using command"}
                /\ reloaded' = "True"
                /\ pc' = "legacy_finally"
                /\ UNCHANGED cmd_idx
           ELSE IF cmd_idx < Len(legacy_commands)
           THEN /\ cmd_idx' = cmd_idx + 1
                /\ UNCHANGED <<out, reloaded, pc>>
           ELSE /\ out' = out \cup {"Could not auto-reload configuration",
                                     "Via UI: Settings -> Server Controls -> YAML Configuration Reloading",
                                     "Via SSH: Run one of the commands above manually"}
                /\ reloaded' = "False"
                /\ pc' = "legacy_finally"
                /\ UNCHANGED cmd_idx
    /\ UNCHANGED <<invocation, remote, script, args, paths, texts, ssh_client, sftp_client, deployed, mode_label,
                   pending, exit_code>>

LegacyFinally ==
    /\ pc = "legacy_finally"
    /\ legacy_disconnect
    /\ out' = out \cup {"Disconnected from server"}
    /\ exit_code' = final_exit_code(pending)
    /\ pc' = "done"
    /\ UNCHANGED <<invocation, remote, script, args, paths, texts, reloaded, deployed, mode_label, cmd_idx, pending>>

-----------------------------------------------------------------------------
(* The run *)

Next ==
    \/ ParseArgs
    \/ ValidateAuth
    \/ ValidateLocal
    \/ Connect
    \/ StageReadDashboard
    \/ StageBackupDashboard
    \/ StageUploadDashboard
    \/ StageReadTheme
    \/ StageBackupTheme
    \/ StageUploadTheme
    \/ ProdBackupDashboard
    \/ ProdUploadDashboard
    \/ ProdBackupTheme
    \/ ProdUploadTheme
    \/ Summary
    \/ Reload
    \/ ReloadApi
    \/ BrowserRefresh
    \/ ReloadCmd
    \/ Finally
    \/ LegacyValidateAuth
    \/ LegacyValidateLocal
    \/ LegacyConnect
    \/ LegacyBackup
    \/ LegacyDeploy
    \/ LegacyReload
    \/ LegacyReloadCmd
    \/ LegacyFinally

Spec == Init /\ [][Next]_vars

TypeOK ==
    /\ script \in {"current", "legacy"}
    /\ args \in CurrentArgs
    /\ ssh_client \in {"none", "created", "open", "closed"}
    /\ sftp_client \in {"none", "open", "closed"}
    /\ mode_label \in {"unset", "PRODUCTION", "STAGING", "PROMOTE TO PROD"}
    /\ cmd_idx \in 0..Len(commands)
    /\ pending \in {"none", "SystemExit(1)", "exception"}
    /\ exit_code \in {"running", "0", "1", "2"}
    /\ reloaded \in {"not called", "True", "False"}
    /\ (pc = "done") = (exit_code # "running")

-----------------------------------------------------------------------------
(* The stage branch of main(): derivation of the staging paths *)

\* Strings are sequences of one-character strings.

\* Longest remote path tried.
MaxPathLen == 4

\* The characters of the remote paths tried: the separator, the dot and a
\* letter standing for every other character.
PathAlphabet == {"/", ".", "a"}

\* --remote and --theme-remote: any non-empty string (an empty one is
\* replaced by the default).
PathStrings == UNION {[1..n -> PathAlphabet] : n \in 1..MaxPathLen}

\* The "-staging" of the two f-strings.
STAGING_SUFFIX == <<"-", "s", "t", "a", "g", "i", "n", "g">>

\* str.rfind(c): the last index of c in s, 0 when c does not occur.
rfind(s, c) ==
    LET at == {i \in 1..Len(s) : s[i] = c}
    IN IF at = {} THEN 0 ELSE CHOOSE i \in at : \A j \in at : j <= i

\* str.rstrip('/')
RECURSIVE rstrip_sep(_)
rstrip_sep(s) ==
    IF s # << >> /\ s[Len(s)] = "/" THEN rstrip_sep(SubSeq(s, 1, Len(s) - 1)) ELSE s

\* os.path.dirname (posixpath): everything up to the last slash, without
\* the trailing slashes unless it consists of slashes only.
dirname(p) ==
    LET head == SubSeq(p, 1, rfind(p, "/"))
    IN IF head # << >> /\ (\E i \in 1..Len(head) : head[i] # "/")
       THEN rstrip_sep(head) ELSE head

\* os.path.basename (posixpath): everything after the last slash.
basename(p) == SubSeq(p, rfind(p, "/") + 1, Len(p))

\* os.path.splitext (genericpath._splitext): <<root, ext>>; the extension
\* starts at the last dot of the last component, unless only dots precede
\* that dot in the component.
splitext(p) ==
    LET sepIndex == rfind(p, "/")
        dotIndex == rfind(p, ".")
    IN IF /\ dotIndex > sepIndex
          /\ \E k \in (sepIndex + 1)..(dotIndex - 1) : p[k] # "."
       THEN <<SubSeq(p, 1, dotIndex - 1), SubSeq(p, dotIndex, Len(p))>>
       ELSE <<p, << >> >>

\* f"{dir}/{stem}-staging{ext}" with dir, stem, ext taken from one path.
staging_remote(p) ==
    LET dir  == dirname(p)
        name == basename(p)
        stem == splitext(name)[1]
        ext  == splitext(name)[2]
    IN dir \o <<"/">> \o stem \o STAGING_SUFFIX \o ext

\* A --stage command line with readable local files.
StageArgs ==
    [key |-> TRUE, password |-> FALSE, token |-> FALSE,
     stage |-> TRUE, promote |-> FALSE, theme |-> FALSE,
     no_reload |-> FALSE, no_backup |-> FALSE,
     local |-> "ok", theme_local |-> "ok"]

\* main() at the head of the stage branch of a connected run, before
\* anything was sent.
AtStageBranch ==
    /\ script = "current"
    /\ invocation = NoInvocation
    /\ args = StageArgs
    /\ ssh_client = "open"
    /\ sftp_client = "open"
    /\ deployed = << >>
    /\ mode_label = "unset"
    /\ cmd_idx = 0
    /\ pending = "none"
    /\ exit_code = "running"
    /\ reloaded = "not called"
    /\ out = {"Connected"}
    /\ trace = <<Call("connect", "host", "ok")>>

PathInit ==
    /\ AtStageBranch
    /\ pc = "stage_derive_paths"
    /\ texts = NoTexts
    /\ remote = NoRemote
    /\ paths \in [remote : PathStrings, theme_remote : PathStrings,
                   staging_dashboard_remote : {<< >>}, staging_theme_remote : {<< >>}]

\* `staging_dashboard_remote = ...` and `staging_theme_remote = ...`
DeriveStagingPaths ==
    /\ pc = "stage_derive_paths"
    /\ paths' = [paths EXCEPT
                   !.staging_dashboard_remote = staging_remote(paths.remote),
                   !.staging_theme_remote = staging_remote(paths.theme_remote)]
    /\ pc' = "stage_read_dashboard"
    /\ UNCHANGED <<invocation, remote, script, args, texts, ssh_client, sftp_client, deployed,
                   mode_label, cmd_idx, pending, exit_code, reloaded, out, trace>>

PathSpec == PathInit /\ [][DeriveStagingPaths]_vars

-----------------------------------------------------------------------------
(* The stage branch of main(): the theme name in the dashboard and the theme *)

\* HomeAssistantDeployer.PROD_THEME_NAME = "My Dashboard Theme"
PROD_THEME_NAME ==
    <<"M", "y", " ", "D", "a", "s", "h", "b", "o", "a", "r", "d",
    " ", "T", "h", "e", "m", "e">>

\* HomeAssistantDeployer.STAGING_THEME_NAME = "My Dashboard Theme - Staging"
STAGING_THEME_NAME ==
    <<"M", "y", " ", "D", "a", "s", "h", "b", "o", "a", "r", "d",
    " ", "T", "h", "e", "m", "e", " ", "-", " ", "S", "t", "a",
    "g", "i", "n", "g">>

\* Most pieces a local text is made of.
MaxSegments == 5

\* The pieces: the production theme name, a colon, the tail that makes the
\* staging name out of the production name, and any other character.
Segments == {PROD_THEME_NAME, <<":">>,
             SubSeq(STAGING_THEME_NAME, Len(PROD_THEME_NAME) + 1, Len(STAGING_THEME_NAME)),
             <<"x">>}

\* The texts of a local file that are tried: up to n pieces in a row.
RECURSIVE TextsOf(_)
TextsOf(n) ==
    IF n = 0 THEN {<< >>}
    ELSE LET shorter == TextsOf(n - 1)
         IN shorter \cup {t \o s : t \in shorter, s \in Segments}

LocalTexts == TextsOf(MaxSegments)

\* str.find(sub): the first index at which sub occurs in s, 0 when it does not.
find(s, sub) ==
    LET at == {i \in 1..(Len(s) - Len(sub) + 1) : SubSeq(s, i, i + Len(sub) - 1) = sub}
    IN IF at = {} THEN 0 ELSE CHOOSE i \in at : \A j \in at : i <= j

\* str.replace(old, new, count) for a non-empty `old`: the occurrences are
\* found from the left, each search starting behind the previous
\* occurrence; at most `count` of them are replaced, all when count < 0.
RECURSIVE replace(_, _, _, _)
replace(s, old, new, count) ==
    LET i == find(s, old)
    IN IF count = 0 \/ i = 0 THEN s
       ELSE SubSeq(s, 1, i - 1) \o new
            \o replace(SubSeq(s, i + Len(old), Len(s)), old, new, count - 1)

DashboardContentInit ==
    /\ AtStageBranch
    /\ pc = "stage_read_dashboard"
    /\ paths = NoPaths
    /\ remote = NoRemote
    /\ texts \in [local : LocalTexts, theme_local : {<< >>},
                   dashboard_content : {<< >>}, theme_content : {<< >>}]

\* Mutant of TransformDashboard: replace() is given the count 1.
TransformDashboard_FirstOnly ==
    /\ pc = "stage_read_dashboard"
    /\ texts' = [texts EXCEPT !.dashboard_content =
                    replace(texts.local, PROD_THEME_NAME, STAGING_THEME_NAME, 1)]
    /\ pc' = "stage_backup_dashboard"
    /\ UNCHANGED <<invocation, remote, script, args, paths, ssh_client, sftp_client, deployed,
                   mode_label, cmd_idx, pending, exit_code, reloaded, out, trace>>

\* Mutant of TransformDashboard: the dashboard is given the theme file's
\* substitution, which looks for the name followed by a colon.
TransformDashboard_KeyOnly ==
    /\ pc = "stage_read_dashboard"
    /\ texts' = [texts EXCEPT !.dashboard_content =
                    replace(texts.local, PROD_THEME_NAME \o <<":">>,
                            STAGING_THEME_NAME \o <<":">>, -1)]
    /\ pc' = "stage_backup_dashboard"
    /\ UNCHANGED <<invocation, remote, script, args, paths, ssh_client, sftp_client, deployed,
                   mode_label, cmd_idx, pending, exit_code, reloaded, out, trace>>

\* `dashboard_content = Path(args.local).read_text(...)` and
\* `dashboard_content.replace(PROD_THEME_NAME, STAGING_THEME_NAME)`
TransformDashboard ==
    /\ pc = "stage_read_dashboard"
    /\ texts' = [texts EXCEPT !.dashboard_content =
                    replace(texts.local, PROD_THEME_NAME, STAGING_THEME_NAME, -1)]
    /\ pc' = "stage_backup_dashboard"
    /\ UNCHANGED <<invocation, remote, script, args, paths, ssh_client, sftp_client, deployed,
                   mode_label, cmd_idx, pending, exit_code, reloaded, out, trace>>

DashboardContentSpec == DashboardContentInit /\ [][TransformDashboard]_vars

\* main() after the staging dashboard was backed up and uploaded.
ThemeContentInit ==
    /\ script = "current"
    /\ args = StageArgs
    /\ ssh_client = "open"
    /\ sftp_client = "open"
    /\ deployed = <<"staging dashboard">>
    /\ mode_label = "unset"
    /\ cmd_idx = 0
    /\ pending = "none"
    /\ exit_code = "running"
    /\ reloaded = "not called"
    /\ out = {"Connected", "Backup created"}
    /\ trace = <<Call("connect", "host", "ok"),
                 Call("backup_file", "staging_dashboard_remote", "absent"),
                 Upload("deploy_content", "dashboard_content", "staging_dashboard_remote", "ok")>>
    /\ pc = "stage_read_theme"
    /\ paths = NoPaths
    /\ remote = NoRemote
    /\ invocation = NoInvocation
    /\ texts \in [local : {<< >>}, theme_local : LocalTexts,
                   dashboard_content : {<< >>}, theme_content : {<< >>}]

\* Mutant of TransformTheme: the count argument of replace() is missing.
TransformTheme_All ==
    /\ pc = "stage_read_theme"
    /\ texts' = [texts EXCEPT !.theme_content =
                    replace(texts.theme_local, PROD_THEME_NAME \o <<":">>,
                            STAGING_THEME_NAME \o <<":">>, -1)]
    /\ pc' = "stage_backup_theme"
    /\ UNCHANGED <<invocation, remote, script, args, paths, ssh_client, sftp_client, deployed,
                   mode_label, cmd_idx, pending, exit_code, reloaded, out, trace>>

\* `theme_content = Path(args.theme_local).read_text(...)` and
\* `theme_content.replace(PROD_THEME_NAME + ":", STAGING_THEME_NAME + ":", 1)`
TransformTheme ==
    /\ pc = "stage_read_theme"
    /\ texts' = [texts EXCEPT !.theme_content =
                    replace(texts.theme_local, PROD_THEME_NAME \o <<":">>,
                            STAGING_THEME_NAME \o <<":">>, 1)]
    /\ pc' = "stage_backup_theme"
    /\ UNCHANGED <<invocation, remote, script, args, paths, ssh_client, sftp_client, deployed,
                   mode_label, cmd_idx, pending, exit_code, reloaded, out, trace>>

ThemeContentSpec == ThemeContentInit /\ [][TransformTheme]_vars

-----------------------------------------------------------------------------
(* The files on the server: what backup_file(), deploy_file() and
   deploy_content() do to them, over one or more invocations that reach the
   try block of main().  Paths are strings here, so that two of the paths a
   run addresses can be the same file. *)

\* Number of invocations in a row.
MaxRuns == 2

\* f"{remote_path}.backup"
BACKUP_SUFFIX == <<".", "b", "a", "c", "k", "u", "p">>

backup_path(remote_path) == remote_path \o BACKUP_SUFFIX

DashboardFile == <<"/", "d", ".", "y">>

ThemeFile == <<"/", "t", ".", "y">>

StagingLike == <<"/", "b">> \o STAGING_SUFFIX

\* Values of (--remote, --theme-remote): two unrelated files, and pairs in
\* which one path has the form the script derives from the other.
RemoteArgPairs ==
    { <<DashboardFile, ThemeFile>>,
      <<DashboardFile, staging_remote(DashboardFile)>>,
      <<StagingLike, backup_path(<<"/", "b">>)>> }

\* main's four remote paths for one pair of arguments (lines 336-346).
PathsOf(pair) ==
    [remote |-> pair[1], theme_remote |-> pair[2],
     staging_dashboard_remote |-> staging_remote(pair[1]),
     staging_theme_remote |-> staging_remote(pair[2])]

Targets(p) == {p.remote, p.theme_remote,
               p.staging_dashboard_remote, p.staging_theme_remote}

\* The files a run can name: the four targets and their backups.
FilesOf(p) == Targets(p) \cup {backup_path(t) : t \in Targets(p)}

\* What a file holds: nothing, what it held before the first invocation, or
\* what an invocation sent (whole, or cut short by a failed transfer).
Absent == [run |-> 0, of |-> << >>]

Initial(f) == [run |-> 0, of |-> f]

Sent(k, what) == [run |-> k, of |-> what]

Truncated(k) == [run |-> k, of |-> <<"truncated">>]

\* The command lines of the invocations: credentials given, local files
\* readable, reload switched off.
RemoteRunArgs ==
    {a \in CurrentArgs :
        /\ a.key /\ ~a.password /\ ~a.token /\ a.no_reload
        /\ a.local = "ok" /\ a.theme_local = "ok"
        /\ ~(a.stage /\ a.promote)
        /\ ~(a.stage /\ a.theme)
        /\ ~(a.promote /\ a.theme)}

\* Mutant of backup_command: source and destination of cp are exchanged.
backup_command_restores(files, remote_path) ==
    IF files[backup_path(remote_path)] # Absent
    THEN [files EXCEPT ![remote_path] = files[backup_path(remote_path)]]
    ELSE files

\* `test -f P && cp P P.backup || echo ...` when cp succeeds.
backup_command(files, remote_path) ==
    IF files[remote_path] # Absent
    THEN [files EXCEPT ![backup_path(remote_path)] = files[remote_path]]
    ELSE files

\* How backup_file() can go, given the files: the target is there and is
\* copied, or cp fails; the target is not there; exec_command()/read()
\* raises.
BackupOutcomes(files, remote_path) ==
    IF files[remote_path] # Absent
    THEN {"copied", "cp_failed", "raised"}
    ELSE {"absent", "raised"}

\* The files after backup_file().  A failed cp leaves the backup as it was
\* or cut short; when the call raised, the command has run or has not.
FilesAfterBackup(files, remote_path, r) ==
    CASE r = "copied"    -> {backup_command(files, remote_path)}
      [] r = "absent"    -> {backup_command(files, remote_path)}
      [] r = "cp_failed" -> {files,
                             [files EXCEPT ![backup_path(remote_path)] = Truncated(remote.run)]}
      [] r = "raised"    -> {files, backup_command(files, remote_path)}

\* The files after put()/putfo(): the target holds what was sent, or the
\* transfer raised and the target is as before or cut short.
FilesAfterUpload(files, remote_path, content, r) ==
    IF r = "ok"
    THEN {[files EXCEPT ![remote_path] = content]}
    ELSE {files, [files EXCEPT ![remote_path] = Truncated(remote.run)]}

\* Mutant of target: the stage branch sends to the production paths.
target_production(a, p, artifact) ==
    IF artifact = "dashboard" THEN p.remote ELSE p.theme_remote

\* The remote path main() passes for an artifact in each branch.
target(a, p, artifact) ==
    IF a.stage
    THEN (IF artifact = "dashboard" THEN p.staging_dashboard_remote
                                    ELSE p.staging_theme_remote)
    ELSE (IF artifact = "dashboard" THEN p.remote ELSE p.theme_remote)

\* What main() sends: the local file, or in the stage branch its
\* transformed text.
content_sent(a, artifact) ==
    Sent(remote.run, IF a.stage THEN <<artifact, "staging">> ELSE <<artifact>>)

\* Stage always deploys the theme; otherwise --theme or --promote asks for it.
theme_requested(a) == a.stage \/ a.theme \/ a.promote

RemoteInit ==
    /\ script = "current"
    /\ invocation = NoInvocation
    /\ args \in RemoteRunArgs
    /\ pc = "remote_backup_dashboard"
    /\ ssh_client = "open"
    /\ sftp_client = "open"
    /\ deployed = << >>
    /\ mode_label = "unset"
    /\ cmd_idx = 0
    /\ pending = "none"
    /\ exit_code = "running"
    /\ reloaded = "not called"
    /\ out = {"Connected"}
    /\ trace = <<Call("connect", "host", "ok")>>
    /\ texts = NoTexts
    /\ \E pair \in RemoteArgPairs : paths = PathsOf(pair)
    /\ \E present \in {{}, {paths.remote, paths.theme_remote}, FilesOf(paths)} :
          LET files == [f \in FilesOf(paths) |->
                           IF f \in present THEN Initial(f) ELSE Absent]
          IN remote = [files |-> files, run |-> 1, at_start |-> files,
                       at_backup |-> files, at_upload |-> files]

\* `if not args.no_backup: deployer.backup_file(path, label)`
RemoteBackup(artifact, next_pc) ==
    /\ pc' = next_pc
    /\ IF ~args.no_backup
       THEN \E r \in BackupOutcomes(remote.files, target(args, paths, artifact)) :
            \E after \in FilesAfterBackup(remote.files, target(args, paths, artifact), r) :
               /\ remote' = [remote EXCEPT !.at_backup = remote.files, !.files = after]
               /\ trace' = Append(trace, Call("backup_file", target(args, paths, artifact), r))
               /\ out' = out \cup {IF r = "raised" THEN "Backup warning" ELSE "Backup created"}
       ELSE /\ remote' = [remote EXCEPT !.at_backup = remote.files]
            /\ UNCHANGED <<trace, out>>
    /\ UNCHANGED <<invocation, script, args, paths, texts, ssh_client, sftp_client, deployed, mode_label,
                   cmd_idx, pending, exit_code, reloaded>>

BackupDashboardFile ==
    /\ pc = "remote_backup_dashboard"
    /\ RemoteBackup("dashboard", "remote_upload_dashboard")

BackupThemeFile ==
    /\ pc = "remote_backup_theme"
    /\ RemoteBackup("theme", "remote_upload_theme")

\* `if not deployer.deploy_file(...)` / `deploy_content(...)`: sys.exit(1),
\* or deployed.append(...) and on to the next artifact.
RemoteUpload(artifact, next_pc) ==
    /\ \E r \in TransferResults :
       \E after \in FilesAfterUpload(remote.files, target(args, paths, artifact),
                                     content_sent(args, artifact), r) :
          /\ remote' = [remote EXCEPT !.at_upload = remote.files, !.files = after]
          /\ trace' = Append(trace, Upload(IF args.stage THEN "deploy_content" ELSE "deploy_file",
                                           artifact, target(args, paths, artifact), r))
          /\ IF r = "ok"
             THEN /\ deployed' = Append(deployed, artifact)
                  /\ pc' = next_pc
                  /\ UNCHANGED pending
             ELSE /\ pending' = "SystemExit(1)"
                  /\ pc' = "remote_end"
                  /\ UNCHANGED deployed
    /\ UNCHANGED <<invocation, script, args, paths, texts, ssh_client, sftp_client, mode_label,
                   cmd_idx, exit_code, reloaded, out>>

UploadDashboardFile ==
    /\ pc = "remote_upload_dashboard"
    /\ RemoteUpload("dashboard", IF theme_requested(args) THEN "remote_backup_theme"
                                                          ELSE "remote_end")

UploadThemeFile ==
    /\ pc = "remote_upload_theme"
    /\ RemoteUpload("theme", "remote_end")

\* The run ends (finally: disconnect) and the same command line is run
\* again and reaches its try block.
NextInvocation ==
    /\ pc = "remote_end"
    /\ remote.run < MaxRuns
    /\ remote' = [run |-> remote.run + 1, files |-> remote.files,
                  at_start |-> remote.files, at_backup |-> remote.files,
                  at_upload |-> remote.files]
    /\ pc' = "remote_backup_dashboard"
    /\ deployed' = << >>
    /\ pending' = "none"
    /\ out' = {"Connected"}
    /\ trace' = <<Call("connect", "host", "ok")>>
    /\ UNCHANGED <<invocation, script, args, paths, texts, ssh_client, sftp_client, mode_label,
                   cmd_idx, exit_code, reloaded>>

RemoteNext ==
    \/ BackupDashboardFile
    \/ UploadDashboardFile
    \/ BackupThemeFile
    \/ UploadThemeFile
    \/ NextInvocation

RemoteSpec == RemoteInit /\ [][RemoteNext]_vars

-----------------------------------------------------------------------------
(* One command line given to the legacy script and then to the current
   script, with the server answering both runs alike.  The command line is
   a Production one without --theme and without --token; `invocation` adds
   what `args` leaves out: whether --remote and --local are given, and the
   kind of private key that --key names. *)

KeyTypes == {"rsa", "other"}

\* The value of args.remote and of args.local after the defaults are set:
\* DEFAULT_DASHBOARDS_DIR/DEFAULT_DASHBOARD_FILE and the default of --local.
resolved_remote(s, inv) ==
    IF inv.remote_given THEN "--remote"
    ELSE IF s = "legacy" THEN "/config/lovelace/ui-lovelace.yaml"
                         ELSE "/config/lovelace/my-dashboard.yaml"

resolved_local(s, inv) ==
    IF inv.local_given THEN "--local"
    ELSE IF s = "legacy" THEN "new.dashboard.yaml"
                         ELSE "repo_root/my-dashboard.yaml"

\* A recorded call with the values of args.remote and args.local in it.
Resolved(tr, s, inv) ==
    [i \in DOMAIN tr |->
        [tr[i] EXCEPT !.arg = IF @ = "args.remote" THEN resolved_remote(s, inv) ELSE @,
                      !.src = IF @ = "args.local" THEN resolved_local(s, inv) ELSE @]]

\* paramiko.RSAKey.from_private_key_file(self.key_file) in the legacy
\* connect(): raises for a key that is not an RSA key, before anything is
\* sent to the server.
rsa_key_loads(a, inv) == ~a.key \/ inv.key_type = "rsa"

\* Two recorded calls are the same operation on the server.
SameOperation(c, d) ==
    /\ c.op = d.op
    /\ c.op = "exec_command" => c.arg = d.arg

\* The server answers the run as it answered the legacy run: an operation
\* both runs reached went the same way.  A legacy connect() that stopped at
\* the key file did not reach the server.  While the legacy script runs,
\* its connect() fails whenever the key does not load.
SameOutcomes ==
    /\ (script = "legacy" /\ ~rsa_key_loads(args, invocation)) =>
           \A i \in DOMAIN trace : trace[i].op = "connect" => trace[i].res = "ssh_fail"
    /\ \A i \in DOMAIN trace : \A j \in DOMAIN invocation.legacy_trace :
           (/\ SameOperation(trace[i], invocation.legacy_trace[j])
            /\ ~(trace[i].op = "connect" /\ ~rsa_key_loads(args, invocation)))
               => trace[i].res = invocation.legacy_trace[j].res

EquivInit ==
    /\ script = "legacy"
    /\ args \in LegacyArgs
    /\ invocation \in [remote_given : BOOLEAN, local_given : BOOLEAN, key_type : KeyTypes,
                        legacy_trace : {<< >>}, legacy_exit_code : {"none"}]
    /\ paths = NoPaths
    /\ texts = NoTexts
    /\ remote = NoRemote
    /\ pc = "legacy_validate_auth"
    /\ ssh_client = "none"
    /\ sftp_client = "none"
    /\ deployed = << >>
    /\ mode_label = "unset"
    /\ cmd_idx = 0
    /\ pending = "none"
    /\ exit_code = "running"
    /\ reloaded = "not called"
    /\ out = {}
    /\ trace = << >>

\* The legacy run is over; the same command line is given to the current
\* script (whose --theme-local default may or may not be there).
RunCurrentScript ==
    /\ script = "legacy"
    /\ pc = "done"
    /\ script' = "current"
    /\ invocation' = [invocation EXCEPT
                         !.legacy_trace = Resolved(trace, "legacy", invocation),
                         !.legacy_exit_code = exit_code]
    /\ \E f \in LocalFileStates : args' = [args EXCEPT !.theme_local = f]
    /\ pc' = "parse_args"
    /\ ssh_client' = "none"
    /\ sftp_client' = "none"
    /\ deployed' = << >>
    /\ mode_label' = "unset"
    /\ cmd_idx' = 0
    /\ pending' = "none"
    /\ exit_code' = "running"
    /\ reloaded' = "not called"
    /\ out' = {}
    /\ trace' = << >>
    /\ UNCHANGED <<paths, texts, remote>>

\* The steps of the two scripts on such a command line.
EquivNext ==
    \/ LegacyValidateAuth /\ SameOutcomes'
    \/ LegacyValidateLocal /\ SameOutcomes'
    \/ LegacyConnect /\ SameOutcomes'
    \/ LegacyBackup /\ SameOutcomes'
    \/ LegacyDeploy /\ SameOutcomes'
    \/ LegacyReload /\ SameOutcomes'
    \/ LegacyReloadCmd /\ SameOutcomes'
    \/ LegacyFinally /\ SameOutcomes'
    \/ RunCurrentScript
    \/ ParseArgs /\ SameOutcomes'
    \/ ValidateAuth /\ SameOutcomes'
    \/ ValidateLocal /\ SameOutcomes'
    \/ Connect /\ SameOutcomes'
    \/ ProdBackupDashboard /\ SameOutcomes'
    \/ ProdUploadDashboard /\ SameOutcomes'
    \/ Summary /\ SameOutcomes'
    \/ Reload /\ SameOutcomes'
    \/ ReloadCmd /\ SameOutcomes'
    \/ Finally /\ SameOutcomes'

EquivSpec == EquivInit /\ [][EquivNext]_vars

-----------------------------------------------------------------------------
(* Vocabulary of the properties: the calls recorded in `trace` *)

Calls(op) == {i \in DOMAIN trace : trace[i].op = op}

ConnectSucceeded == \E i \in Calls("connect") : trace[i].res = "ok"

ConnectFailed == \E i \in Calls("connect") : trace[i].res # "ok"

Disconnects == Cardinality(Calls("disconnect"))

Uploads == Calls("deploy_file") \cup Calls("deploy_content")

FailedUploads == {i \in Uploads : trace[i].res # "ok"}

\* Everything a run does on the server once connected, except disconnecting.
RemoteSteps == {i \in DOMAIN trace :
                  trace[i].op \in {"backup_file", "deploy_file", "deploy_content",
                                   "reload_yaml_config", "exec_command"}}

ReloadCalls == Calls("reload_yaml_config")

ApiCalls == {i \in Calls("exec_command") : trace[i].arg = "curl reload_core_config"}

FallbackCalls == {i \in Calls("exec_command") :
                    \E k \in DOMAIN commands : trace[i].arg = commands[k]}

\* The remote paths the run was asked to upload to: the dashboard in every
\* mode, the theme under --theme, --promote and --stage.
RequestedPaths ==
    IF args.stage THEN {"staging_dashboard_remote", "staging_theme_remote"}
    ELSE {"args.remote"}
         \cup (IF args.theme \/ args.promote THEN {"args.theme_remote"} ELSE {})

-----------------------------------------------------------------------------
(* C1 *)

\* C1: in every run in which connect() succeeded, disconnect() is invoked
\* exactly once before the process ends: never twice, and once by the time
\* the process has ended, whether it ended by returning, by sys.exit(1) or
\* by an exception.
C1_DisconnectOnceAfterConnect ==
    ConnectSucceeded =>
        /\ Disconnects <= 1
        /\ (pc = "done" => Disconnects = 1)

\* A run that connected, raised while reading a local file and has ended.
C1_Witness ==
    /\ pc = "done"
    /\ ConnectSucceeded
    /\ pending = "exception"
    /\ Disconnects = 1

-----------------------------------------------------------------------------
(* C2 *)

\* C2: disconnect() is invoked exactly once per run and at the end of the
\* run neither channel opened by connect() is still open, in every run in
\* which connect() opened a channel, the run in which the file-transfer
\* channel could not be opened included.
C2_ChannelsReleasedAtEnd ==
    (pc = "done" /\ (\E i \in Calls("connect") : trace[i].res \in {"ok", "sftp_fail"})) =>
        /\ Disconnects = 1
        /\ ssh_client # "open"
        /\ sftp_client # "open"

-----------------------------------------------------------------------------
(* C3 *)

\* A local file of an artifact the run is going to deploy is missing.
RequiredLocalMissing ==
    \/ ~exists(args.local)
    \/ (args.theme \/ args.promote \/ args.stage) /\ ~exists(args.theme_local)

\* C3: when a local file of an artifact the run is going to deploy is
\* missing (the dashboard in every mode, the theme under --theme, --promote
\* and --stage), connect() is never called, nothing is backed up or
\* uploaded, and the run ends with a non-zero exit status.
C3_MissingLocalFileStopsBeforeConnect ==
    (script = "current" /\ RequiredLocalMissing) =>
        /\ trace = << >>
        /\ (pc = "done" => exit_code # "0")

-----------------------------------------------------------------------------
(* C4 *)

\* C4: once an upload has failed, nothing follows it but disconnect(): no
\* second upload (no retry, no later artifact), no backup, no reload; and
\* the run ends with a non-zero exit status after disconnect() has run.
C4_UploadFailureIsTerminal ==
    \A i \in FailedUploads :
        /\ \A j \in DOMAIN trace : j > i => trace[j].op = "disconnect"
        /\ (pc = "done" =>
               /\ exit_code # "0"
               /\ \E j \in Calls("disconnect") : j > i)

\* The dashboard upload of a run that also had a theme to deploy and a
\* reload to do has failed, and the run has ended.
C4_Witness ==
    /\ pc = "done"
    /\ Cardinality(RequestedPaths) = 2
    /\ ~args.no_reload
    /\ \E i \in FailedUploads : trace[i].arg \in {"args.remote", "staging_dashboard_remote"}

-----------------------------------------------------------------------------
(* C5 *)

\* C5: when connect() fails it was called once, the run has ended with a
\* non-zero exit status and no backup, upload, reload or refresh is issued.
C5_ConnectFailureIsTerminal ==
    ConnectFailed =>
        /\ Cardinality(Calls("connect")) = 1
        /\ RemoteSteps = {}
        /\ pc = "done"
        /\ exit_code \notin {"running", "0"}

\* connect() failed on opening the file-transfer channel.
C5_Witness ==
    /\ pc = "done"
    /\ \E i \in Calls("connect") : trace[i].res = "sftp_fail"
    /\ exit_code = "1"

-----------------------------------------------------------------------------
(* C6 *)

\* C6: with neither --key nor --password the run never calls connect() nor
\* anything else on the deployer, no channel object exists, and the run
\* ends with a non-zero exit status.
C6_NoCredentialNoNetwork ==
    (~args.key /\ ~args.password) =>
        /\ trace = << >>
        /\ ssh_client = "none"
        /\ sftp_client = "none"
        /\ (pc = "done" => exit_code # "0")

\* The run was ended by the authentication check.
C6_Witness ==
    /\ pc = "done"
    /\ ~args.key /\ ~args.password
    /\ exit_code = "1"
    /\ "Error: Must specify either --key or --password" \in out

-----------------------------------------------------------------------------
(* C7 *)

\* The modes the command line asks for.
ModesAsked ==
    (IF args.stage THEN {"Stage"} ELSE {})
    \cup (IF args.promote THEN {"Promote"} ELSE {})
    \cup (IF ~args.stage /\ ~args.promote THEN {"Production"} ELSE {})

StagingPaths == {"staging_dashboard_remote", "staging_theme_remote"}

\* C7: a run that reaches connect() has exactly one mode; --stage with
\* --promote ends with a non-zero exit status and no connection; with
\* neither flag the run is a Production run: it addresses no staging path
\* and its summary is labelled PRODUCTION; a Stage run addresses staging
\* paths only, and the label of the summary is that of the one mode.
C7_ExactlyOneMode ==
    /\ trace # << >> => Cardinality(ModesAsked) = 1
    /\ (args.stage /\ args.promote) =>
           /\ trace = << >>
           /\ (pc = "done" => exit_code # "0")
    /\ (~args.stage /\ ~args.promote) =>
           /\ mode_label \in {"unset", "PRODUCTION"}
           /\ \A i \in DOMAIN trace : trace[i].arg \notin StagingPaths
    /\ args.stage =>
           /\ mode_label \in {"unset", "STAGING"}
           /\ \A i \in Uploads : trace[i].arg \in StagingPaths
    /\ args.promote => mode_label \in {"unset", "PROMOTE TO PROD"}

\* --stage together with --promote was refused.
C7_Witness ==
    /\ pc = "done"
    /\ args.stage /\ args.promote
    /\ exit_code = "2"
    /\ trace = << >>

-----------------------------------------------------------------------------
(* C8 *)

\* C8: reload_yaml_config() is called at most once, never with --no-reload,
\* and only when every requested upload has succeeded before it: no upload
\* failed, none follows the call, and each requested path was uploaded to.
C8_ReloadOnceAfterAllUploads ==
    /\ Cardinality(ReloadCalls) <= 1
    /\ \A i \in ReloadCalls :
        /\ ~args.no_reload
        /\ FailedUploads = {}
        /\ \A j \in Uploads : j < i
        /\ \A p \in RequestedPaths :
               \E j \in Uploads : j < i /\ trace[j].arg = p /\ trace[j].res = "ok"

\* reload_yaml_config() was called after a dashboard and a theme upload.
C8_Witness ==
    /\ ReloadCalls # {}
    /\ Cardinality(Uploads) = 2
    /\ args.theme

-----------------------------------------------------------------------------
(* C9 *)

\* The reload was attempted and every remote call of it failed: the API
\* call if there was one, and each of the fallback commands.
AllReloadAttemptsFailed ==
    /\ ReloadCalls # {}
    /\ \A i \in ApiCalls : trace[i].res # "zero"
    /\ \A k \in DOMAIN commands :
           \E i \in FallbackCalls : trace[i].arg = commands[k] /\ trace[i].res # "zero"

\* C9: a run whose reload attempts all failed, by exit status or by
\* raising, has reported the deployment as successful, printed the
\* manual-reload instructions, disconnected, and ended with exit code 0.
C9_ReloadFailureNonFatal ==
    (pc = "done" /\ AllReloadAttemptsFailed) =>
        /\ exit_code = "0"
        /\ "Deployed successfully" \in out
        /\ "Could not auto-reload configuration" \in out
        /\ "Via UI: Settings -> Server Controls -> YAML Configuration Reloading" \in out
        /\ Disconnects = 1
        /\ reloaded = "False"

\* The API call raised and the last fallback command raised as well.
C9_Witness ==
    /\ pc = "done"
    /\ AllReloadAttemptsFailed
    /\ \E i \in ApiCalls : trace[i].res = "raised"
    /\ \E i \in FallbackCalls : trace[i].arg = commands[Len(commands)] /\ trace[i].res = "raised"

-----------------------------------------------------------------------------
(* C10 *)

\* C10: the API call is issued at most once, never without a token, before
\* every fallback command, and no fallback command follows a successful API
\* call; by the end of a run that attempted the reload the API call was
\* issued exactly once if a token was given, and fallback commands were
\* tried iff no token was given or the API call failed.
C10_ApiCallThenFallbacks ==
    /\ Cardinality(ApiCalls) <= 1
    /\ ~args.token => ApiCalls = {}
    /\ \A i \in ApiCalls : \A j \in FallbackCalls : i < j
    /\ \A i \in ApiCalls : trace[i].res = "zero" => FallbackCalls = {}
    /\ (pc = "done" /\ ReloadCalls # {}) =>
           /\ args.token => Cardinality(ApiCalls) = 1
           /\ (FallbackCalls # {}) <=>
                  (~args.token \/ \E i \in ApiCalls : trace[i].res # "zero")

\* The API call raised and the fallback commands were tried after it.
C10_Witness ==
    /\ pc = "done"
    /\ args.token
    /\ \E i \in ApiCalls : trace[i].res = "raised"
    /\ FallbackCalls # {}


-----------------------------------------------------------------------------
(* C11 *)

\* The fallback commands in the order of the claim: supervisor CLI,
\* service-account install, container install.
FixedOrder ==
    << "hassio homeassistant reload core_config",
       "sudo -u homeassistant -H /srv/homeassistant/bin/homeassistant --script reload_core_config",
       "docker exec homeassistant homeassistant --script reload_core_config" >>

CmdCalls == {i \in Calls("exec_command") :
               \E k \in DOMAIN FixedOrder : trace[i].arg = FixedOrder[k]}

\* The rank of the command call at index i among the command calls.
CmdRank(i) == Cardinality({j \in CmdCalls : j <= i})

\* C11: the k-th fallback command issued is the k-th of the fixed order, so
\* the commands run in that order and none twice; a command is issued only
\* after all earlier ones failed, by exit status or by raising; after a
\* command with exit status 0 no remote command follows and the reload has
\* returned True; and a run that has ended did not stop on a failed
\* command while another one was left to try.
C11_FallbacksInFixedOrder ==
    /\ \A i \in CmdCalls :
        /\ CmdRank(i) <= Len(FixedOrder)
        /\ trace[i].arg = FixedOrder[CmdRank(i)]
        /\ \A j \in CmdCalls : j < i => trace[j].res # "zero"
        /\ trace[i].res = "zero" =>
               /\ \A j \in Calls("exec_command") : j <= i
               /\ reloaded = "True"
    /\ pc = "done" =>
           \A i \in CmdCalls :
               (trace[i].res # "zero" /\ CmdRank(i) < Len(FixedOrder)) =>
                   \E j \in CmdCalls : CmdRank(j) = CmdRank(i) + 1

\* The first command raised, the second failed, the third succeeded.
C11_Witness ==
    /\ pc = "done"
    /\ Cardinality(CmdCalls) = Len(FixedOrder)
    /\ \E i \in CmdCalls : CmdRank(i) = 1 /\ trace[i].res = "raised"
    /\ \E i \in CmdCalls : trace[i].arg = FixedOrder[Len(FixedOrder)] /\ trace[i].res = "zero"
    /\ reloaded = "True"

-----------------------------------------------------------------------------
(* C12 *)

RefreshCalls == {i \in Calls("exec_command") : trace[i].arg = "curl browser_mod/refresh"}

\* C12: the browser refresh is issued at most once, only with a token and
\* directly after an API reload call that ended with exit status 0, never
\* in a run that tried a fallback command; and whatever its result, the
\* reload has returned True and the run that has ended has exit code 0.
C12_BrowserRefreshBestEffort ==
    /\ Cardinality(RefreshCalls) <= 1
    /\ \A i \in RefreshCalls :
        /\ args.token
        /\ i - 1 \in ApiCalls
        /\ trace[i - 1].res = "zero"
        /\ CmdCalls = {}
        /\ reloaded = "True"
        /\ pc = "done" => exit_code = "0"

\* The refresh call raised; the reload is a success and the run ended with 0.
C12_Witness ==
    /\ pc = "done"
    /\ \E i \in RefreshCalls : trace[i].res = "raised"
    /\ reloaded = "True"
    /\ exit_code = "0"


-----------------------------------------------------------------------------
(* C13 *)

BackupCalls == Calls("backup_file")

\* The backups that failed: the remote command raised, or the cp failed.
FailedBackups == {i \in BackupCalls : trace[i].res \in {"raised", "cp_failed"}}

\* C13: whenever a backup has failed a warning has been printed, the upload
\* of the same artifact is the next call of the run, and the exit code is
\* what it is without the failure: 0 unless an upload failed or an
\* exception ended the run.
C13_BackupFailureWarnsAndContinues ==
    \A i \in FailedBackups :
        /\ "Backup warning" \in out
        /\ i < Len(trace) => (i + 1 \in Uploads /\ trace[i + 1].arg = trace[i].arg)
        /\ pc = "done" => i < Len(trace)
        /\ (pc = "done" /\ FailedUploads = {} /\ pending # "exception") => exit_code = "0"

-----------------------------------------------------------------------------
(* C14 *)

-----------------------------------------------------------------------------
(* C15 *)

\* Repeated slashes collapsed: two strings that differ in this only name
\* the same file.
RECURSIVE CollapseSlashes(_)
CollapseSlashes(s) ==
    IF Len(s) < 2 THEN s
    ELSE IF s[1] = "/" /\ s[2] = "/" THEN CollapseSlashes(Tail(s))
    ELSE <<s[1]>> \o CollapseSlashes(Tail(s))

\* The file called `name` in the directory `dir`; an empty `dir` is the
\* directory a relative path starts from.
InDirectory(dir, name) ==
    IF dir = << >> THEN name ELSE CollapseSlashes(dir \o <<"/">> \o name)

\* dirname(P)/stem(P)-staging.ext(P), or dirname(P)/stem(P)-staging when P
\* has no extension: the sibling of P with "-staging" after the stem.
StagingSibling(p) ==
    InDirectory(dirname(p),
                splitext(basename(p))[1] \o STAGING_SUFFIX \o splitext(basename(p))[2])

\* C15: for every production path P, the dashboard's and the theme's alike,
\* the staging path derived from P names the file stem(P)-staging.ext(P)
\* (stem(P)-staging without extension) in the directory of P.
C15_StagingPathIsSibling ==
    pc = "stage_read_dashboard" =>
        /\ CollapseSlashes(paths.staging_dashboard_remote) = StagingSibling(paths.remote)
        /\ CollapseSlashes(paths.staging_theme_remote) = StagingSibling(paths.theme_remote)


-----------------------------------------------------------------------------
(* C16 *)

\* Every index at which sub occurs in s.
Occurrences(s, sub) ==
    {i \in 1..(Len(s) - Len(sub) + 1) : SubSeq(s, i, i + Len(sub) - 1) = sub}

\* s with `new` in the place of the Len(old) characters at index p.
ReplacedAt(s, p, old, new) == SubSeq(s, 1, p - 1) \o new \o SubSeq(s, p + Len(old), Len(s))

\* s with `new` in the place of `old` at each of the indices, the rightmost
\* first, so that the indices still to do keep their meaning.
RECURSIVE ReplacedAtAll(_, _, _, _)
ReplacedAtAll(s, at, old, new) ==
    IF at = {} THEN s
    ELSE LET p == CHOOSE i \in at : \A j \in at : j <= i
         IN ReplacedAtAll(ReplacedAt(s, p, old, new), at \ {p}, old, new)

\* C16: the dashboard content to upload is the local text with the staging
\* theme name at every place where the production theme name occurs in
\* it, and is the local text itself when the name does not occur.
C16_DashboardEveryOccurrence ==
    pc = "stage_backup_dashboard" =>
        /\ texts.dashboard_content =
               ReplacedAtAll(texts.local, Occurrences(texts.local, PROD_THEME_NAME),
                             PROD_THEME_NAME, STAGING_THEME_NAME)
        /\ Occurrences(texts.local, PROD_THEME_NAME) = {} =>
               texts.dashboard_content = texts.local

\* A dashboard that names the production theme three times was transformed.
C16_Witness ==
    /\ pc = "stage_backup_dashboard"
    /\ Cardinality(Occurrences(texts.local, PROD_THEME_NAME)) = 3
    /\ Cardinality(Occurrences(texts.dashboard_content, STAGING_THEME_NAME)) = 3

-----------------------------------------------------------------------------
(* C17 *)

ProdKey == PROD_THEME_NAME \o <<":">>

StagingKey == STAGING_THEME_NAME \o <<":">>

\* C17: the theme content to upload is the local text with the staging key
\* in the place of the first production key and nothing else changed, so
\* one production key less occurs in it and every other one is kept; it is
\* the local text itself when the production key does not occur.
C17_ThemeFirstKeyOnly ==
    pc = "stage_backup_theme" =>
        LET keys == Occurrences(texts.theme_local, ProdKey)
            first == CHOOSE i \in keys : \A j \in keys : i <= j
        IN IF keys = {}
           THEN texts.theme_content = texts.theme_local
           ELSE /\ texts.theme_content =
                       ReplacedAt(texts.theme_local, first, ProdKey, StagingKey)
                /\ Cardinality(Occurrences(texts.theme_content, ProdKey))
                       = Cardinality(keys) - 1
                /\ Cardinality(Occurrences(texts.theme_content, StagingKey))
                       = Cardinality(Occurrences(texts.theme_local, StagingKey)) + 1

\* A theme with the production key twice and the bare name before the
\* first key was transformed.
C17_Witness ==
    /\ pc = "stage_backup_theme"
    /\ Cardinality(Occurrences(texts.theme_local, ProdKey)) = 2
    /\ Cardinality(Occurrences(texts.theme_local, PROD_THEME_NAME)) = 3
    /\ find(texts.theme_local, PROD_THEME_NAME) < find(texts.theme_local, ProdKey)
    /\ Cardinality(Occurrences(texts.theme_content, ProdKey)) = 1


-----------------------------------------------------------------------------
(* C18 *)

\* C18: in a run without --stage every upload is a deploy_file() call,
\* which sends a local file as it is, and it sends the local dashboard to
\* args.remote or the local theme to args.theme_remote; no call of the run
\* addresses a staging path and no transformed content is sent.
C18_ProductionVerbatim ==
    ~args.stage =>
        /\ \A i \in Uploads :
            /\ trace[i].op = "deploy_file"
            /\ \/ trace[i].src = "args.local" /\ trace[i].arg = "args.remote"
               \/ trace[i].src = "args.theme_local" /\ trace[i].arg = "args.theme_remote"
        /\ \A i \in DOMAIN trace :
            /\ trace[i].arg \notin StagingPaths
            /\ trace[i].src \notin {"dashboard_content", "theme_content"}

\* A --promote run has uploaded the dashboard and the theme.
C18_Witness ==
    /\ pc = "done"
    /\ args.promote
    /\ Cardinality({i \in Uploads : trace[i].res = "ok"}) = 2

-----------------------------------------------------------------------------
(* C19 *)

DashboardPaths == {"args.remote", "staging_dashboard_remote"}

ThemePaths == {"args.theme_remote", "staging_theme_remote"}

\* The theme was asked for: --theme, --promote or --stage.
ThemeRequested == args.theme \/ args.promote \/ args.stage

DashboardUploaded == \E j \in Uploads : trace[j].arg \in DashboardPaths /\ trace[j].res = "ok"

\* C19: by the end of a run the theme upload was attempted iff the theme
\* was asked for and the dashboard upload succeeded, and with backups
\* enabled the theme was backed up in exactly those runs; a dashboard
\* upload precedes every theme upload; a Production run without --theme
\* addresses no theme path.
C19_ThemeIffRequestedAndDashboardUploaded ==
    script = "current" =>
        /\ pc = "done" =>
               ((\E i \in Uploads : trace[i].arg \in ThemePaths)
                   <=> (ThemeRequested /\ DashboardUploaded))
        /\ (pc = "done" /\ ~args.no_backup) =>
               ((\E i \in BackupCalls : trace[i].arg \in ThemePaths)
                   <=> (ThemeRequested /\ DashboardUploaded))
        /\ \A i \in Uploads :
               trace[i].arg \in ThemePaths =>
                   \E j \in Uploads : j < i /\ trace[j].arg \in DashboardPaths
        /\ (~args.stage /\ ~args.promote /\ ~args.theme) =>
               \A i \in DOMAIN trace : trace[i].arg \notin ThemePaths

-----------------------------------------------------------------------------
(* C20 *)

\* C20: every backup, upload, reload command and refresh call comes after
\* the successful connect() and before disconnect(), with both channels
\* open when it is issued; backups and uploads come before the reload, the
\* dashboard before the theme; nothing follows disconnect(), and a run
\* that connected ends with both channels closed.
C20_WorkflowOrder ==
    /\ \A i \in RemoteSteps :
        /\ \E c \in Calls("connect") : c < i /\ trace[c].res = "ok"
        /\ \A d \in Calls("disconnect") : i < d
    /\ (RemoteSteps # {} /\ Disconnects = 0) =>
           (ssh_client = "open" /\ sftp_client = "open")
    /\ \A i \in BackupCalls \cup Uploads :
           \A j \in ReloadCalls \cup Calls("exec_command") : i < j
    /\ \A i \in ReloadCalls : \A j \in Calls("exec_command") : i < j
    /\ \A i \in DOMAIN trace : \A j \in DOMAIN trace :
           (trace[i].arg \in DashboardPaths /\ trace[j].arg \in ThemePaths) => i < j
    /\ \A d \in Calls("disconnect") : d = Len(trace)
    /\ (ConnectSucceeded /\ pc = "done") =>
           (Disconnects = 1 /\ ssh_client = "closed" /\ sftp_client = "closed")

\* A run that backed up, uploaded dashboard and theme, reloaded through the
\* API, refreshed the browsers and disconnected.
C20_Witness ==
    /\ pc = "done"
    /\ Cardinality(BackupCalls) = 2
    /\ Cardinality(Uploads) = 2
    /\ ReloadCalls # {}
    /\ RefreshCalls # {}
    /\ Disconnects = 1


-----------------------------------------------------------------------------
(* C21 *)

\* The calls of the reload phase: reload_yaml_config() and every command
\* it runs on the remote shell (API call, fallbacks, browser refresh).
ReloadPhase == ReloadCalls \cup Calls("exec_command")

\* C21 as stated: every call of the reload phase comes after the session
\* has been disconnected.
C21_ReloadAfterDisconnect ==
    \A i \in ReloadPhase : \E d \in Calls("disconnect") : d < i

\* C21 amended: the reload phase comes after the uploads and before
\* disconnect().  While reload_yaml_config() runs no disconnect() has been
\* called and the SSH channel is open; every call of the reload phase
\* precedes disconnect(), and disconnect() is the last call of a finished
\* run that reloaded.
C21_ReloadBeforeDisconnect ==
    /\ pc \in {"reload_api", "reload_cmd", "browser_refresh", "legacy_reload_cmd"} =>
           (Disconnects = 0 /\ ssh_client = "open")
    /\ \A i \in ReloadPhase :
           /\ \A d \in Calls("disconnect") : i < d
           /\ \A u \in Uploads : u < i
    /\ (pc = "done" /\ ReloadPhase # {}) =>
           (Disconnects = 1 /\ trace[Len(trace)].op = "disconnect")

\* A finished run without token whose reload went through the fallback
\* commands and which then disconnected.
C21_Witness ==
    /\ pc = "done"
    /\ ~args.token
    /\ FallbackCalls # {}
    /\ trace[Len(trace)].op = "disconnect"


-----------------------------------------------------------------------------
(* C22 *)

\* The last call of the run so far is an upload that a backup was due for.
UploadJustDone ==
    /\ ~args.no_backup
    /\ Len(trace) >= 3
    /\ trace[Len(trace)].op \in {"deploy_file", "deploy_content"}

LastTarget == trace[Len(trace)].arg

LastBackup == trace[Len(trace) - 1]

\* C22 as stated: with backups enabled the backup call for the target
\* precedes its upload, and after the upload '<path>.backup' holds what the
\* target held immediately before the upload if the target existed, and is
\* as it was before the backup if the target did not exist.
C22_BackupHoldsPreviousVersion ==
    UploadJustDone =>
        /\ LastBackup.op = "backup_file"
        /\ LastBackup.arg = LastTarget
        /\ IF remote.at_backup[LastTarget] # Absent
           THEN remote.files[backup_path(LastTarget)] = remote.at_upload[LastTarget]
           ELSE remote.files[backup_path(LastTarget)]
                    = remote.at_backup[backup_path(LastTarget)]

\* C22 amended: the backup call for the target precedes its upload and
\* leaves the target as it was.  When the copy succeeded, the target
\* existed and '<path>.backup' holds what the target held immediately
\* before the upload; when the command found no target, '<path>.backup' is
\* as it was before.  Nothing is promised when cp failed or the call
\* raised.
C22_BackupHoldsPreviousVersionIfCopied ==
    UploadJustDone =>
        /\ LastBackup.op = "backup_file"
        /\ LastBackup.arg = LastTarget
        /\ remote.at_upload[LastTarget] = remote.at_backup[LastTarget]
        /\ LastBackup.res = "copied" =>
               /\ remote.at_backup[LastTarget] # Absent
               /\ remote.files[backup_path(LastTarget)] = remote.at_upload[LastTarget]
        /\ LastBackup.res = "absent" =>
               /\ remote.at_backup[LastTarget] = Absent
               /\ remote.files[backup_path(LastTarget)]
                      = remote.at_backup[backup_path(LastTarget)]

\* The second production run has uploaded the dashboard: the target holds
\* what this run sent and its backup holds what the first run sent.
C22_Witness ==
    /\ UploadJustDone
    /\ remote.run = 2
    /\ LastTarget = paths.remote
    /\ LastBackup.res = "copied"
    /\ remote.files[paths.remote] = Sent(2, <<"dashboard">>)
    /\ remote.files[backup_path(paths.remote)] = Sent(1, <<"dashboard">>)

-----------------------------------------------------------------------------
(* C23 *)

ProductionFiles == {paths.remote, paths.theme_remote,
                    backup_path(paths.remote), backup_path(paths.theme_remote)}

StagingFiles == {paths.staging_dashboard_remote, paths.staging_theme_remote,
                 backup_path(paths.staging_dashboard_remote),
                 backup_path(paths.staging_theme_remote)}

\* The files that differ from what they were when the run started.
Modified == {f \in DOMAIN remote.files : remote.files[f] # remote.at_start[f]}

\* C23 as stated: in a --stage run the production dashboard, the
\* production theme and their backups are as they were when the run
\* started, and only the two staging files and their backups are modified.
C23_StageWritesNoProductionFile ==
    args.stage =>
        /\ \A f \in ProductionFiles : f \notin Modified
        /\ Modified \subseteq StagingFiles

\* C23 amended: in a --stage run only the two staging files and their
\* backups are modified; a production file or its backup is modified only
\* if the command line makes it one of those four files.
C23_StageWritesStagingFilesOnly ==
    args.stage =>
        /\ Modified \subseteq StagingFiles
        /\ \A f \in ProductionFiles : f \in Modified => f \in StagingFiles
        /\ ProductionFiles \cap StagingFiles = {} =>
               \A f \in ProductionFiles : remote.files[f] = remote.at_start[f]

\* A finished --stage run with unrelated paths: both staging files hold
\* what the run sent, the production files are there and as before.
C23_Witness ==
    /\ args.stage
    /\ pc = "remote_end"
    /\ ProductionFiles \cap StagingFiles = {}
    /\ remote.files[paths.staging_dashboard_remote] = Sent(remote.run, <<"dashboard", "staging">>)
    /\ remote.files[paths.staging_theme_remote] = Sent(remote.run, <<"theme", "staging">>)
    /\ remote.files[paths.remote] = Initial(paths.remote)
    /\ remote.files[paths.theme_remote] = Initial(paths.theme_remote)


-----------------------------------------------------------------------------
(* C24 *)

\* The dashboard substitution applied to a text that went through it.
TransformedAgain == replace(texts.dashboard_content, PROD_THEME_NAME, STAGING_THEME_NAME, -1)

\* C24 as stated: transforming the transformed dashboard text gives the
\* transformed text again, and a text in which the staging theme name
\* occurs is left unchanged by the transformation.
C24_DashboardTransformIdempotent ==
    pc = "stage_backup_dashboard" =>
        /\ TransformedAgain = texts.dashboard_content
        /\ Occurrences(texts.local, STAGING_THEME_NAME) # {} =>
               texts.dashboard_content = texts.local

\* C24 amended: the transformation leaves a text unchanged iff the
\* production theme name does not occur in it, and transforming the
\* transformed text gives the same text iff the production theme name does
\* not occur in the original (the staging name begins with the production
\* name, so each further pass lengthens a substituted name again).
C24_DashboardTransformIdempotentOnAbsence ==
    pc = "stage_backup_dashboard" =>
        /\ (texts.dashboard_content = texts.local)
               <=> (Occurrences(texts.local, PROD_THEME_NAME) = {})
        /\ (TransformedAgain = texts.dashboard_content)
               <=> (Occurrences(texts.local, PROD_THEME_NAME) = {})

\* A dashboard text without the production theme name went through the
\* transformation unchanged.
C24_Witness ==
    /\ pc = "stage_backup_dashboard"
    /\ Len(texts.local) > 1
    /\ Occurrences(texts.local, PROD_THEME_NAME) = {}
    /\ texts.dashboard_content = texts.local
    /\ TransformedAgain = texts.local


-----------------------------------------------------------------------------
(* C25 *)

\* Both runs of the command line are over.
BothRan == script = "current" /\ pc = "done" /\ invocation.legacy_exit_code # "none"

SameRun ==
    /\ Resolved(trace, "current", invocation) = invocation.legacy_trace
    /\ exit_code = invocation.legacy_exit_code

\* C25 as stated: on a Production command line without --theme and
\* without --token, with the server answering alike, the current script
\* makes the calls the legacy script made, with the same files and paths
\* and in the same order, and ends with the same exit code.
C25_LegacyAndCurrentAgree ==
    BothRan => SameRun

\* C25 amended: the two scripts agree when the command line gives --remote
\* and --local and authenticates with a password or an RSA key.
C25_LegacyAndCurrentAgreeOnExplicitPaths ==
    (/\ BothRan
     /\ invocation.remote_given
     /\ invocation.local_given
     /\ rsa_key_loads(args, invocation)) => SameRun

\* Both scripts connected, backed up, uploaded, went through more than one
\* reload command and ended with exit code 0 after the same calls.
C25_Witness ==
    /\ BothRan
    /\ invocation.remote_given /\ invocation.local_given
    /\ args.key /\ invocation.key_type = "rsa"
    /\ SameRun
    /\ exit_code = "0"
    /\ BackupCalls # {}
    /\ Cardinality(FallbackCalls) >= 2
    /\ Disconnects = 1

====
